---- MODULE Spec2Model ----
(***************************************************************************)
(* Model of libsno: the Kalman filter of sno/kalman_filter.h and the       *)
(* Err_log logger of include/errlog.h.                                     *)
(*                                                                         *)
(* A double is modelled by an exact rational <<n, d>> in lowest terms with *)
(* d > 0.  The IEEE values a division by zero produces (+inf, -inf, NaN)   *)
(* are modelled by the single value NonFinite = <<0, 0>>, which every      *)
(* arithmetic operation propagates.                                        *)
(***************************************************************************)
EXTENDS Integers, Sequences, FiniteSets, TLC

VARIABLES
    \* ---- so::Kalman_filter<N, M> (src/sno/kalman_filter.h) ----
    m_A,              \* the matrix the m_A closure returns
    m_B,              \* the matrix the m_B closure returns
    m_Q,              \* process noise covariance
    m_x,              \* state estimate, N x 1
    m_P,              \* error covariance, N x N
    m_last_timestamp, \* time of the last Predict
    call,             \* the last call made on the filter and its arguments
    nCalls,           \* number of calls made so far
    symmetricInputs,  \* history: P0 and Q are symmetric and every call so far
                      \* was a Predict, a Set_state_estimate, or an Update
                      \* with a symmetric R and an invertible S
    \* ---- Err_log<C, T> (src/include/errlog.h) ----
    m_mutex,          \* owner of the class-wide mutex, 0 when free
    m_mag,            \* the logging level
    m_out_stream,     \* id of the stream the shared pointer points to
    streams,          \* stream id -> sequence of entries written to it
    freed,            \* ids of the stream objects that were destroyed
    pc,               \* per thread: position in the life of its message
    msg,              \* per thread: the fields of its Err_log object
    pending,          \* per thread: the stream pointer loaded and the text to write
    nMsgs,            \* number of message objects constructed so far
    crashed           \* TRUE once a write through a dangling pointer faulted

kvars == <<m_A, m_B, m_Q, m_x, m_P, m_last_timestamp, call, nCalls,
           symmetricInputs>>
lvars == <<m_mutex, m_mag, m_out_stream, streams, freed, pc, msg, pending,
           nMsgs, crashed>>
vars == <<m_A, m_B, m_Q, m_x, m_P, m_last_timestamp, call, nCalls,
          symmetricInputs, m_mutex, m_mag, m_out_stream, streams, freed, pc, msg, pending,
          nMsgs, crashed>>

----------------------------------------------------------------------------
(* Bounds of the model *)

\* Calls made on one filter instance.
MaxCalls == 3
\* Timestamps range over 0..MaxTime.
MaxTime == 1
\* Threads that log.
NumThreads == 2
\* Err_log objects constructed in one run.
MaxMsgs == 2
\* Insertions (operator<<) into one Err_log object.
MaxPieces == 1
\* Stream objects opened in one run, the default stream included.
MaxStreams == 3

----------------------------------------------------------------------------
(* double arithmetic *)

NonFinite == <<0, 0>>

IsFinite(a) == a[2] # 0

Abs(n) == IF n < 0 THEN -n ELSE n

RECURSIVE GCD(_, _)
GCD(a, b) == IF b = 0 THEN a ELSE GCD(b, a % b)

\* n/d, d # 0, in lowest terms with a positive denominator
Norm(n, d) ==
    LET g == GCD(Abs(n), Abs(d))
        s == IF d < 0 THEN -1 ELSE 1
    IN  <<(s * n) \div g, (s * d) \div g>>

Rat(n) == <<n, 1>>

\* over the least common denominator, to keep the integers small
RAdd(a, b) ==
    IF ~IsFinite(a) \/ ~IsFinite(b) THEN NonFinite
    ELSE LET g == GCD(a[2], b[2])
         IN  Norm(a[1] * (b[2] \div g) + b[1] * (a[2] \div g),
                  (a[2] \div g) * b[2])

RNeg(a) == IF ~IsFinite(a) THEN NonFinite ELSE <<-a[1], a[2]>>

RSub(a, b) == RAdd(a, RNeg(b))

\* inf * 0 is NaN and inf * x is +-inf: a non-finite factor gives a
\* non-finite product
RMul(a, b) ==
    IF ~IsFinite(a) \/ ~IsFinite(b) THEN NonFinite
    ELSE LET g1 == GCD(Abs(a[1]), b[2])
             g2 == GCD(Abs(b[1]), a[2])
         IN  Norm((a[1] \div g1) * (b[1] \div g2),
                  (a[2] \div g2) * (b[2] \div g1))

\* x / 0 is +-inf or NaN.  x / NaN is NaN; x / +-inf is 0 in IEEE, but the
\* filter multiplies every such quotient by an entry of P * H^T, which is
\* non-finite whenever S is, so the product is non-finite either way.
RDiv(a, b) ==
    IF ~IsFinite(a) \/ ~IsFinite(b) \/ b[1] = 0 THEN NonFinite
    ELSE RMul(a, Norm(b[2], b[1]))

----------------------------------------------------------------------------
(* Eigen fixed-size matrices: a matrix is a sequence of rows.  The model
   instantiates the templates with dimensions 1 and 2 only. *)

Rows(X) == Len(X)
Cols(X) == Len(X[1])

\* <<f(1), ..., f(n)>> for n <= 2, built as a tuple
Vec(n, f(_)) == IF n = 1 THEN <<f(1)>> ELSE <<f(1), f(2)>>

Mat(n, m, f(_, _)) == Vec(n, LAMBDA i : Vec(m, LAMBDA j : f(i, j)))

\* sum over k in 1..n of X[i][k] * Y[k][j]
Dot(X, Y, i, j, n) ==
    IF n = 1 THEN RMul(X[i][1], Y[1][j])
    ELSE RAdd(RMul(X[i][1], Y[1][j]), RMul(X[i][2], Y[2][j]))

MMul(X, Y) == Mat(Rows(X), Cols(Y), LAMBDA i, j : Dot(X, Y, i, j, Cols(X)))

MAdd(X, Y) == Mat(Rows(X), Cols(X), LAMBDA i, j : RAdd(X[i][j], Y[i][j]))

MSub(X, Y) == Mat(Rows(X), Cols(X), LAMBDA i, j : RSub(X[i][j], Y[i][j]))

Transpose(X) == Mat(Cols(X), Rows(X), LAMBDA i, j : X[j][i])

Identity(n) == Mat(n, n, LAMBDA i, j : IF i = j THEN Rat(1) ELSE Rat(0))

Zero(n, m) == Mat(n, m, LAMBDA i, j : Rat(0))

\* Eigen::Matrix<double, 1, 1>(z)
Mat11(z) == <<<<z>>>>

Det(S) ==
    IF Rows(S) = 1 THEN S[1][1]
    ELSE RSub(RMul(S[1][1], S[2][2]), RMul(S[1][2], S[2][1]))

\* MatrixBase::inverse() of a fixed-size 1x1 or 2x2 matrix: the cofactors
\* times 1/det, with no check of the determinant
Inverse(S) ==
    LET invdet == RDiv(Rat(1), Det(S))
    IN  IF Rows(S) = 1 THEN <<<<invdet>>>>
        ELSE << <<RMul(S[2][2], invdet), RMul(RNeg(S[1][2]), invdet)>>,
                <<RMul(RNeg(S[2][1]), invdet), RMul(S[1][1], invdet)>> >>

AllFinite(X) == \A i \in 1..Rows(X) : \A j \in 1..Cols(X) : IsFinite(X[i][j])

IsSymmetric(X) ==
    \A i \in 1..Rows(X) : \A j \in 1..Cols(X) : X[i][j] = X[j][i]

\* S has an inverse: its entries are finite and its determinant is not 0
Invertible(S) == AllFinite(S) /\ Det(S) # Rat(0)

\* S is a singular matrix
Singular(S) == AllFinite(S) /\ Det(S) = Rat(0)

----------------------------------------------------------------------------
(* so::Kalman_filter<N, M> *)

\* The closures the constructor stores: [A](const double){return A;}
m_A_fn(dt) == m_A
m_B_fn(dt) == m_B

\* Template parameters, read off the stored matrices
N == Rows(m_x)
M == Cols(m_B)

\* Constructor arguments the model starts from: <<A, B, Q, x0, P0, t0>>.
\* The first is the scalar filter A = 1, B = 0, Q = 0.01, x0 = 0, P0 = 1;
\* the second a position/velocity filter with N = 2, M = 1.
Configs ==
    { << Mat11(Rat(1)), Mat11(Rat(0)), Mat11(<<1, 100>>),
         Mat11(Rat(0)), Mat11(Rat(1)), 0 >>,
      << << <<Rat(1), Rat(1)>>, <<Rat(0), Rat(1)>> >>,
         << <<Rat(0)>>, <<Rat(1)>> >>,
         << <<Rat(0), Rat(0)>>, <<Rat(0), Rat(1)>> >>,
         << <<Rat(0)>>, <<Rat(0)>> >>,
         << <<Rat(1), Rat(0)>>, <<Rat(0), Rat(1)>> >>, 0 >> }

\* Timestamps the callers pass
Times == 0..MaxTime

\* Control inputs passed to Predict(u, t), M x 1
Controls(m) == { Mat(m, 1, LAMBDA i, j : Rat(1)) }

\* Scalar observations and scalar observation noise
ScalarZ == {Rat(0), Rat(1)}
ScalarR == {Rat(0), Rat(1)}

\* 1 x N observation models of the scalar Update
RowsH(n) ==
    IF n = 1 THEN { << <<Rat(1)>> >>, << <<Rat(0)>> >> }
    ELSE { << <<Rat(1), Rat(0)>> >>, << <<Rat(1), Rat(1)>> >> }

\* Arguments of the vector Update with U = 2: z is 2 x 1, H is 2 x N and
\* R is the identity, zero, a symmetric matrix with off-diagonal entries, or
\* a matrix that is not symmetric
VectorZ == { << <<Rat(1)>>, <<Rat(2)>> >> }

ObsMatrices(n) ==
    IF n = 1 THEN { << <<Rat(1)>>, <<Rat(1)>> >> }
    ELSE { << <<Rat(1), Rat(0)>>, <<Rat(0), Rat(1)>> >>,
           << <<Rat(1), Rat(1)>>, <<Rat(0), Rat(1)>> >> }

VectorR ==
    { << <<Rat(1), Rat(0)>>, <<Rat(0), Rat(1)>> >>,
      << <<Rat(0), Rat(0)>>, <<Rat(0), Rat(0)>> >>,
      << <<Rat(2), Rat(1)>>, <<Rat(1), Rat(1)>> >>,
      << <<Rat(1), Rat(1)>>, <<Rat(0), Rat(1)>> >> }

\* Arguments of the setters, both declared const MatrixNN&
SetterArgs(n) ==
    IF n = 1 THEN { << <<Rat(2)>> >> }
    ELSE { << <<Rat(1), Rat(1)>>, <<Rat(0), Rat(1)>> >> }

NoArg == <<>>

KInit ==
    \E c \in Configs :
        /\ m_A = c[1]
        /\ m_B = c[2]
        /\ m_Q = c[3]
        /\ m_x = c[4]
        /\ m_P = c[5]
        /\ m_last_timestamp = c[6]
        /\ call = [op |-> "Kalman_filter", u |-> NoArg, t |-> c[6], dt |-> 0,
                   z |-> NoArg, H |-> NoArg, R |-> NoArg, raised |-> FALSE]
        /\ nCalls = 0
        /\ symmetricInputs = (IsSymmetric(c[5]) /\ IsSymmetric(c[3]))

\* ---- Predict(u, t), lines 78-86 ----

\* Faulty variant: dt taken after m_last_timestamp was assigned
Predict_dt_afterAssign(t, last) == t - t

\* double dt = t - m_last_timestamp;
Predict_dt(t, last) == t - last

\* Faulty variant: a timestamp that never moves back
Predict_last_timestamp_max(t, last) == IF t > last THEN t ELSE last

\* m_last_timestamp = t;
Predict_last_timestamp(t, last) == t

\* m_x = A * m_x + B * u;
Predict_x(A, B, x, u) == MAdd(MMul(A, x), MMul(B, u))

\* Faulty variant: the process noise is left out
Predict_P_noQ(A, P, Q) == MMul(MMul(A, P), Transpose(A))

\* Faulty variant: A is not transposed
Predict_P_noTranspose(A, P, Q) == MAdd(MMul(MMul(A, P), A), Q)

\* m_P = A * m_P * A.transpose() + m_Q;
Predict_P(A, P, Q) == MAdd(MMul(MMul(A, P), Transpose(A)), Q)

Predict_u(u, t) ==
    /\ nCalls < MaxCalls
    /\ LET dt == Predict_dt(t, m_last_timestamp)
           A  == m_A_fn(dt)
           B  == m_B_fn(dt)
       IN  /\ m_last_timestamp' = Predict_last_timestamp(t, m_last_timestamp)
           /\ m_x' = Predict_x(A, B, m_x, u)
           /\ m_P' = Predict_P(A, m_P, m_Q)
           /\ call' = [op |-> "Predict", u |-> u, t |-> t, dt |-> dt,
                       z |-> NoArg, H |-> NoArg, R |-> NoArg,
                       raised |-> FALSE]
    /\ nCalls' = nCalls + 1
    /\ UNCHANGED <<m_A, m_B, m_Q, symmetricInputs>>
    /\ UNCHANGED lvars

\* Predict(t), lines 66-70: u = MatrixM1::Zero(); Predict(u, t);
Predict(t) == Predict_u(Zero(M, 1), t)

\* ---- Update<U>(z, H, R), lines 119-145 ----

\* y = z - H * m_x;
Update_y(z, H, x) == MSub(z, MMul(H, x))

\* S = H * m_P * H.transpose() + R;
Update_S(H, P, R) == MAdd(MMul(MMul(H, P), Transpose(H)), R)

\* Faulty variant: S is not inverted
Update_K_noInverse(P, H, S) == MMul(MMul(P, Transpose(H)), S)

\* K = m_P * H.transpose() * S.inverse();
Update_K(P, H, S) == MMul(MMul(P, Transpose(H)), Inverse(S))

\* m_x = m_x + K * y;
Update_x(x, K, y) == MAdd(x, MMul(K, y))

\* m_P = (MatrixNN::Identity() - K*H) * m_P;
Update_P(K, H, P) == MMul(MSub(Identity(Rows(P)), MMul(K, H)), P)

\* Faulty variant: Update advances the clock
Update_last_timestamp_advanced(last) == last + 1

\* The function has no statement that assigns m_last_timestamp
Update_last_timestamp(last) == last

\* The function has no throw statement, and Eigen's fixed-size inverse()
\* has no error path: the call always returns normally
Update_raised(S) == FALSE

Update_U(op, z, H, R) ==
    /\ nCalls < MaxCalls
    /\ \E y \in {Update_y(z, H, m_x)}, S \in {Update_S(H, m_P, R)} :
       \E K \in {Update_K(m_P, H, S)} :
           /\ m_x' = Update_x(m_x, K, y)
           /\ m_P' = Update_P(K, H, m_P)
           /\ call' = [op |-> op, u |-> NoArg, t |-> 0, dt |-> 0,
                       z |-> z, H |-> H, R |-> R,
                       raised |-> Update_raised(S)]
           /\ symmetricInputs' =
                  (symmetricInputs /\ IsSymmetric(R) /\ Invertible(S))
    /\ m_last_timestamp' = Update_last_timestamp(m_last_timestamp)
    /\ nCalls' = nCalls + 1
    /\ UNCHANGED <<m_A, m_B, m_Q>>
    /\ UNCHANGED lvars

\* The vector form, instantiated with U = 2
Update(z, H, R) == Update_U("Update", z, H, R)

\* The scalar overload, lines 99-106: wraps z and R into 1x1 matrices
Update_scalar(z, H, R) == Update_U("Update_scalar", Mat11(z), H, Mat11(R))

\* ---- setters, lines 159-168 ----

\* Set_state_estimate(const MatrixNN& x): m_x = x assigns an N x N matrix
\* to the N x 1 member, which Eigen compiles only when N = 1
Set_state_estimate(x) ==
    /\ nCalls < MaxCalls
    /\ N = 1
    /\ m_x' = x
    /\ call' = [op |-> "Set_state_estimate", u |-> NoArg, t |-> 0, dt |-> 0,
                z |-> NoArg, H |-> NoArg, R |-> NoArg, raised |-> FALSE]
    /\ nCalls' = nCalls + 1
    /\ UNCHANGED <<m_A, m_B, m_Q, m_P, m_last_timestamp, symmetricInputs>>
    /\ UNCHANGED lvars

Set_error_covariance(p) ==
    /\ nCalls < MaxCalls
    /\ m_P' = p
    /\ call' = [op |-> "Set_error_covariance", u |-> NoArg, t |-> 0,
                dt |-> 0, z |-> NoArg, H |-> NoArg, R |-> NoArg,
                raised |-> FALSE]
    /\ nCalls' = nCalls + 1
    /\ symmetricInputs' = FALSE
    /\ UNCHANGED <<m_A, m_B, m_Q, m_x, m_last_timestamp>>
    /\ UNCHANGED lvars

KNext ==
    \/ \E t \in Times : Predict(t)
    \/ \E u \in Controls(M), t \in Times : Predict_u(u, t)
    \/ \E z \in ScalarZ, H \in RowsH(N), R \in ScalarR :
           Update_scalar(z, H, R)
    \/ \E z \in VectorZ, H \in ObsMatrices(N), R \in VectorR :
           Update(z, H, R)
    \/ \E x \in SetterArgs(N) : Set_state_estimate(x)
    \/ \E p \in SetterArgs(N) : Set_error_covariance(p)

----------------------------------------------------------------------------
(* Err_log<C, T> *)

EMAG_Unknown == -1
EMAG_Debug == 10
EMAG_Info == 20
EMAG_Warning == 30
EMAG_Severe == 40
EMAG_Fatal == 50

Threads == 1..NumThreads

\* Magnitudes the callers pass
Mags == {EMAG_Debug, EMAG_Warning}

\* BOOST_CURRENT_FUNCTION strings the callers pass, as character sequences
Scopes == { <<"v", " ", "C", ":", "f", "(", "i", ")">> }

\* Objects inserted with operator<<
Objs == {"a"}

\* The stream m_out_stream is initialised with: &Get_default(), null_deleter()
DefaultStream == 1

\* An empty shared_ptr
NullStream == 0

\* The fields of one Err_log object.  m_alt_stream tells whether the
\* pointer is set; alt_out is what was written to the ofstream it owns.
NoMsg == [id |-> 0, m_curr_mag |-> EMAG_Unknown, m_alt_stream |-> FALSE,
          alt_out |-> <<>>, scope |-> <<>>, pieces |-> 0]

NoPending == [alt |-> FALSE, target |-> NullStream, text |-> <<>>,
              kind |-> "none"]

LInit ==
    /\ m_mutex = 0
    /\ m_mag = EMAG_Debug
    /\ m_out_stream = DefaultStream
    /\ streams = << <<>> >>
    /\ freed = {}
    /\ pc = [t \in Threads |-> "idle"]
    /\ msg = [t \in Threads |-> NoMsg]
    /\ pending = [t \in Threads |-> NoPending]
    /\ nMsgs = 0
    /\ crashed = FALSE

\* ---- get_msg_prefix, lines 228-250 ----

LevelName(mag) ==
    CASE mag = EMAG_Debug -> "DEBUG--"
      [] mag = EMAG_Info -> "INFO--"
      [] mag = EMAG_Warning -> "WARNING--"
      [] mag = EMAG_Severe -> "SEVERE--"
      [] mag = EMAG_Fatal -> "FATAL--"
      [] OTHER -> " --"

\* std::string::find_last_of as a 1-based index, 0 for npos
FindLastOf(str, c) ==
    LET hits == {i \in 1..Len(str) : str[i] = c}
    IN  IF hits = {} THEN 0 ELSE CHOOSE i \in hits : \A j \in hits : j <= i

get_msg_prefix(mag, curr_func) ==
    LET args_start == FindLastOf(curr_func, "(")
        \* substr(0, npos) is the whole string
        func_no_args == IF args_start = 0 THEN curr_func
                        ELSE SubSeq(curr_func, 1, args_start - 1)
        \* npos + 1 wraps to 0: the whole string
        scope_start == FindLastOf(func_no_args, " ") + 1
        func == SubSeq(func_no_args, scope_start, Len(func_no_args))
    IN  <<LevelName(mag), "[">> \o func \o <<"]", " ">>

\* ---- constructors, lines 73-98 ----

\* Faulty variant: the constructor does not wait for the mutex
Ctor_may_lock_always(owner) == TRUE

\* Whether m_lock(m_mutex) lets the constructor go on: it blocks until the
\* mutex is free
Ctor_may_lock(owner) == owner = 0

\* The member initialisers: m_alt_stream (the three-argument form opens its
\* file), m_curr_mag, and m_lock(m_mutex), which blocks until the mutex is
\* free.  A constructor that waits for the mutex has done nothing a thread
\* can see, so the initialisers are one step taken when the mutex is free.
Err_log_ctor(t, scope, mag, withFile) ==
    /\ ~crashed
    /\ pc[t] = "idle"
    /\ nMsgs < MaxMsgs
    /\ Ctor_may_lock(m_mutex)
    /\ m_mutex' = t
    /\ nMsgs' = nMsgs + 1
    /\ msg' = [msg EXCEPT ![t] =
                 [id |-> nMsgs + 1, m_curr_mag |-> mag,
                  m_alt_stream |-> withFile, alt_out |-> <<>>,
                  scope |-> scope, pieces |-> 0]]
    /\ pc' = [pc EXCEPT ![t] = "body"]
    /\ UNCHANGED <<m_mag, m_out_stream, streams, freed, pending, crashed>>
    /\ UNCHANGED kvars

\* Whether the constructor body writes the prefix: it does so with no test
\* of m_curr_mag against m_mag
Ctor_writes_prefix(mag, level) == TRUE

\* The constructor body: *m_out_stream << get_msg_prefix(scope), or the same
\* on *m_alt_stream; this step evaluates the pointer and the prefix
Ctor_body(t) ==
    /\ ~crashed
    /\ pc[t] = "body"
    /\ IF Ctor_writes_prefix(msg[t].m_curr_mag, m_mag)
       THEN /\ pending' = [pending EXCEPT ![t] =
                 [alt |-> msg[t].m_alt_stream,
                  target |-> IF msg[t].m_alt_stream THEN NullStream
                             ELSE m_out_stream,
                  text |-> get_msg_prefix(msg[t].m_curr_mag, msg[t].scope),
                  kind |-> "prefix"]]
            /\ pc' = [pc EXCEPT ![t] = "write"]
       ELSE /\ pc' = [pc EXCEPT ![t] = "alive"]
            /\ UNCHANGED pending
    /\ msg' = [msg EXCEPT ![t].scope = <<>>]
    /\ UNCHANGED <<m_mutex, m_mag, m_out_stream, streams, freed, nMsgs,
                   crashed>>
    /\ UNCHANGED kvars

\* ---- operator<<, lines 139-153 ----

\* if(m_curr_mag >= m_mag)
Insert_passes(mag, level) == mag >= level

\* The tests of operator<< and the evaluation of the stream pointer
Insert(t, obj) ==
    /\ ~crashed
    /\ pc[t] = "alive"
    /\ msg[t].pieces < MaxPieces
    /\ msg' = [msg EXCEPT ![t].pieces = @ + 1]
    /\ IF Insert_passes(msg[t].m_curr_mag, m_mag)
          /\ (msg[t].m_alt_stream \/ m_out_stream # NullStream)
       THEN /\ pending' = [pending EXCEPT ![t] =
                 [alt |-> msg[t].m_alt_stream,
                  target |-> IF msg[t].m_alt_stream THEN NullStream
                             ELSE m_out_stream,
                  text |-> <<obj>>, kind |-> "piece"]]
            /\ pc' = [pc EXCEPT ![t] = "write"]
       ELSE UNCHANGED <<pending, pc>>
    /\ UNCHANGED <<m_mutex, m_mag, m_out_stream, streams, freed, nMsgs,
                   crashed>>
    /\ UNCHANGED kvars

\* What a write leaves in a stream: the text, tagged with the message it
\* belongs to and the magnitude of that message
Entry(t) == [msg |-> msg[t].id, mag |-> msg[t].m_curr_mag,
             kind |-> pending[t].kind, text |-> pending[t].text]

\* The write through the pointer evaluated before
Write(t) ==
    /\ ~crashed
    /\ pc[t] = "write"
    /\ pending[t].alt \/ pending[t].target \notin freed
    /\ IF pending[t].alt
       THEN /\ msg' = [msg EXCEPT ![t].alt_out = Append(@, Entry(t))]
            /\ UNCHANGED streams
       ELSE /\ streams' = [streams EXCEPT ![pending[t].target] =
                              Append(@, Entry(t))]
            /\ UNCHANGED msg
    /\ pending' = [pending EXCEPT ![t] = NoPending]
    /\ pc' = [pc EXCEPT ![t] = "alive"]
    /\ UNCHANGED <<m_mutex, m_mag, m_out_stream, freed, nMsgs, crashed>>
    /\ UNCHANGED kvars

\* The same write when Set_log_file destroyed the stream in between: a use
\* of a destroyed object, whose outcome is not defined.  The text reaches
\* the old stream, is lost, or the process faults.
Write_dangling(t) ==
    /\ ~crashed
    /\ pc[t] = "write"
    /\ ~pending[t].alt
    /\ pending[t].target \in freed
    /\ \/ /\ streams' = [streams EXCEPT ![pending[t].target] =
                            Append(@, Entry(t))]
          /\ UNCHANGED crashed
       \/ UNCHANGED <<streams, crashed>>
       \/ /\ crashed' = TRUE
          /\ UNCHANGED streams
    /\ pending' = [pending EXCEPT ![t] = NoPending]
    /\ pc' = [pc EXCEPT ![t] = "alive"]
    /\ UNCHANGED <<m_mutex, m_mag, m_out_stream, freed, msg, nMsgs>>
    /\ UNCHANGED kvars

\* ---- destructor, lines 105-108 ----

\* Members are destroyed in reverse order: m_lock releases the mutex, then
\* m_alt_stream closes the ofstream it owns
Err_log_dtor(t) ==
    /\ ~crashed
    /\ pc[t] = "alive"
    /\ m_mutex' = 0
    /\ msg' = [msg EXCEPT ![t] = NoMsg]
    /\ pc' = [pc EXCEPT ![t] = "idle"]
    /\ UNCHANGED <<m_mag, m_out_stream, streams, freed, pending, nMsgs,
                   crashed>>
    /\ UNCHANGED kvars

\* ---- Set_logging_level, lines 116-120 ----

\* scoped_lock lock(m_mutex); m_mag = mag;  The lock, the assignment and
\* the unlock are one step: nothing else happens while the lock is held.
Set_logging_level(t, mag) ==
    /\ ~crashed
    /\ pc[t] = "idle"
    /\ m_mutex = 0
    /\ m_mag' = mag
    /\ UNCHANGED <<m_mutex, m_out_stream, streams, freed, pc, msg, pending,
                   nMsgs, crashed>>
    /\ UNCHANGED kvars

\* ---- Set_log_file, lines 128-132 ----

\* Whether the function waits for the mutex.  "boost::mutex::scoped_lock
\* (m_mutex);" declares a local lock object named m_mutex, default
\* constructed and owning nothing: the class's mutex is never locked.
Set_log_file_may_run(owner) == TRUE

\* m_out_stream.reset(new std::ofstream(...)): the old stream loses its only
\* owner and is destroyed, unless it is the default stream (null_deleter)
Set_log_file(t) ==
    /\ ~crashed
    /\ pc[t] = "idle"
    /\ Set_log_file_may_run(m_mutex)
    /\ Len(streams) < MaxStreams
    /\ streams' = Append(streams, <<>>)
    /\ m_out_stream' = Len(streams) + 1
    /\ freed' = IF m_out_stream # DefaultStream
                THEN freed \cup {m_out_stream} ELSE freed
    /\ UNCHANGED <<m_mutex, m_mag, pc, msg, pending, nMsgs, crashed>>
    /\ UNCHANGED kvars

LNext ==
    \/ \E t \in Threads, scope \in Scopes, mag \in Mags,
          withFile \in BOOLEAN : Err_log_ctor(t, scope, mag, withFile)
    \/ \E t \in Threads : Ctor_body(t)
    \/ \E t \in Threads, obj \in Objs : Insert(t, obj)
    \/ \E t \in Threads : Write(t)
    \/ \E t \in Threads : Write_dangling(t)
    \/ \E t \in Threads : Err_log_dtor(t)
    \/ \E t \in Threads, mag \in Mags : Set_logging_level(t, mag)
    \/ \E t \in Threads : Set_log_file(t)

----------------------------------------------------------------------------
(* Specifications *)

\* One filter instance driven by its caller; the logger is not used
Init == KInit /\ LInit

Next == KNext

Spec == Init /\ [][Next]_vars

\* Threads logging through Err_log; the filter is left as constructed
LogInit ==
    /\ LInit
    /\ KInit
    /\ N = 1

LogNext == LNext

LogSpec == LogInit /\ [][LogNext]_vars

----------------------------------------------------------------------------
(* Properties of the Kalman filter, checked under Spec *)

\* The step is a call of the named function
IsCall(op) == nCalls' = nCalls + 1 /\ call'.op = op

IsUpdateCall == IsCall("Update") \/ IsCall("Update_scalar")

\* The innovation covariance H*P*H^T + R of call c, from the state before
InnovationCov(c) == {MAdd(MMul(MMul(c.H, m_P), Transpose(c.H)), c.R)}

\* The gain P*H^T*S^-1 of call c, from the state before
Gain(c, S) == {MMul(MMul(m_P, Transpose(c.H)), Inverse(S))}

\* The model is the one of the scalar scenario: N = 1, A = 1, B = 0, Q = 0.01
ScalarScenario ==
    /\ m_A = Mat11(Rat(1))
    /\ m_B = Mat11(Rat(0))
    /\ m_Q = Mat11(<<1, 100>>)

\* C1: every Predict(u, t), also one with t earlier than the stored
\* timestamp, takes dt = t - last_timestamp from the timestamp before the
\* call, sets last_timestamp to t, x to A*x + B*u and P to A*P*A^T + Q, the
\* right-hand sides being the values before the call.
C1_PredictContract ==
    [][IsCall("Predict") =>
          /\ call'.dt = call'.t - m_last_timestamp
          /\ m_last_timestamp' = call'.t
          /\ m_x' = MAdd(MMul(m_A, m_x), MMul(m_B, call'.u))
          /\ m_P' = MAdd(MMul(MMul(m_A, m_P), Transpose(m_A)), m_Q)]_vars

\* A Predict with a control input and a timestamp earlier than the stored
\* one was accepted and moved x
C1_Witness ==
    /\ call.op = "Predict"
    /\ call.dt < 0
    /\ m_last_timestamp = call.t
    /\ call.u # Zero(M, 1)
    /\ m_B # Zero(N, M)
    /\ m_x # Zero(N, 1)

\* The second of two Predict calls at the same timestamp, made on a model
\* with A = I and B = 0
SecondPredictAtSameTime ==
    /\ call.op = "Predict"
    /\ IsCall("Predict")
    /\ call'.t = call.t
    /\ m_A = Identity(N)
    /\ m_B = Zero(N, M)

\* C2 as stated: with A = I and B = 0, a Predict at t followed at once by a
\* Predict at the same t leaves x and P as they were after the first.
C2_SamePredictIdentity ==
    [][SecondPredictAtSameTime => m_x' = m_x /\ m_P' = m_P]_vars

\* C2 as amended: with A = I and B = 0, a Predict at t followed at once by a
\* Predict at the same t leaves x as it was after the first call and adds Q
\* to the P the first call left.
C2_SamePredictAddsQ ==
    [][SecondPredictAtSameTime =>
          /\ call'.dt = 0
          /\ m_x' = m_x
          /\ m_P' = MAdd(m_P, m_Q)]_vars

\* Two Predict calls at t = 1 on the scalar model: P went from 1 to 1.02
C2_Witness ==
    /\ ScalarScenario
    /\ nCalls = 2
    /\ call.op = "Predict"
    /\ call.t = 1
    /\ call.dt = 0
    /\ m_P = Mat11(<<51, 50>>)

\* C3 as stated: an Update whose innovation covariance S = H*P*H^T + R is
\* singular ends in a numerical error and leaves x and P as they were.
C3_SingularUpdateRejected ==
    [][IsUpdateCall => \A c \in {call'} : \A S \in InnovationCov(c) :
          (AllFinite(m_P) /\ Singular(S)) =>
              /\ call'.raised
              /\ m_x' = m_x
              /\ m_P' = m_P]_vars

\* C4: with an invertible S, Update sets x to x + K*(z - H*x) and P to
\* (I - K*H)*P with K = P*H^T*(H*P*H^T + R)^-1, all from the values before
\* the call; the scalar overload does so with z and R as 1x1 matrices; and
\* on the scalar model Predict(t = 1) from x = 0, P = 1 gives x = 0,
\* P = 1.01, after which Update(z = 1, H = 1, R = 1) gives x = P = 1.01/2.01.
C4_UpdateContract ==
    [][/\ IsUpdateCall => \A c \in {call'} : \A S \in InnovationCov(c) :
             Invertible(S) => \A K \in Gain(c, S) :
                 /\ m_x' = MAdd(m_x, MMul(K, MSub(c.z, MMul(c.H, m_x))))
                 /\ m_P' = MMul(MSub(Identity(N), MMul(K, c.H)), m_P)
       /\ IsCall("Update_scalar") =>
             /\ Rows(call'.z) = 1 /\ Cols(call'.z) = 1
             /\ Rows(call'.R) = 1 /\ Cols(call'.R) = 1
       /\ (/\ IsCall("Predict")
           /\ ScalarScenario
           /\ m_x = Mat11(Rat(0))
           /\ m_P = Mat11(Rat(1))
           /\ m_last_timestamp = 0
           /\ call'.t = 1) =>
             /\ m_x' = Mat11(Rat(0))
             /\ m_P' = Mat11(<<101, 100>>)
       /\ (/\ IsCall("Update_scalar")
           /\ ScalarScenario
           /\ m_x = Mat11(Rat(0))
           /\ m_P = Mat11(<<101, 100>>)
           /\ call'.z = Mat11(Rat(1))
           /\ call'.H = Mat11(Rat(1))
           /\ call'.R = Mat11(Rat(1))) =>
             /\ m_x' = Mat11(<<101, 201>>)
             /\ m_P' = Mat11(<<101, 201>>)]_vars

\* The scalar scenario was run: Predict(t = 1), then Update(1, 1, 1)
C4_Witness ==
    /\ ScalarScenario
    /\ nCalls = 2
    /\ m_last_timestamp = 1
    /\ call.op = "Update_scalar"
    /\ call.z = Mat11(Rat(1))
    /\ call.H = Mat11(Rat(1))
    /\ call.R = Mat11(Rat(1))
    /\ m_x = Mat11(<<101, 201>>)
    /\ m_P = Mat11(<<101, 201>>)

\* C5: only Predict changes last_timestamp: every Update, scalar or vector,
\* every Set_state_estimate and every Set_error_covariance leaves it as it
\* was, so a Predict measures dt from the Predict before it.
C5_OnlyPredictMovesTime ==
    [][/\ (\/ IsUpdateCall
           \/ IsCall("Set_state_estimate")
           \/ IsCall("Set_error_covariance")) =>
             m_last_timestamp' = m_last_timestamp
       /\ m_last_timestamp' # m_last_timestamp => IsCall("Predict")]_vars

\* A Predict moved the time to 1, and two Updates later it is still 1
C5_Witness ==
    /\ nCalls = 3
    /\ call.op \in {"Update", "Update_scalar"}
    /\ m_last_timestamp = 1
    /\ AllFinite(m_P)
    /\ m_P # Identity(N)

\* C6: from a symmetric P0 and a symmetric Q, P is symmetric after any
\* sequence of Predict calls and of Update calls with a symmetric R and an
\* invertible S, Set_error_covariance not being called.
C6_CovarianceSymmetric == symmetricInputs => IsSymmetric(m_P)

\* A Predict and Updates on the N = 2 filter left a P with correlations
C6_Witness ==
    /\ symmetricInputs
    /\ N = 2
    /\ nCalls = 3
    /\ call.op = "Update"
    /\ m_last_timestamp = 1
    /\ m_P[1][2] # Rat(0)
    /\ m_P[1][1] # m_P[2][2]

\* C7 as stated: no step makes last_timestamp smaller.
C7_TimeNeverDecreases ==
    [][m_last_timestamp' >= m_last_timestamp]_vars

\* C7 as amended: no step makes last_timestamp smaller, except a Predict
\* called with a t earlier than last_timestamp, which sets it back to t.
C7_TimeFollowsPredict ==
    [][IF IsCall("Predict") /\ call'.t < m_last_timestamp
       THEN m_last_timestamp' = call'.t
       ELSE m_last_timestamp' >= m_last_timestamp]_vars

\* The time went forward to 1 and a later Predict set it back to 0
C7_Witness ==
    /\ nCalls >= 2
    /\ call.op = "Predict"
    /\ call.t = 0
    /\ call.dt = -1
    /\ m_last_timestamp = 0

----------------------------------------------------------------------------
(* Properties of the logger, checked under LogSpec *)

\* The message object of thread t is alive: constructed and not destroyed
Alive(t) == pc[t] # "idle"

\* The entries of stream s that belong to one message lie side by side
Contiguous(s) ==
    \A i \in 1..Len(streams[s]) : \A k \in i..Len(streams[s]) :
        streams[s][i].msg = streams[s][k].msg =>
            \A j \in i..k : streams[s][j].msg = streams[s][i].msg

\* C8: at most one message object is alive at a time, its thread holding
\* the class-wide mutex from construction to destruction, and in no stream
\* does the output of another message lie between two outputs of one
\* message.
C8_LogLineAtomic ==
    /\ \A t1 \in Threads : \A t2 \in Threads :
           (Alive(t1) /\ Alive(t2)) => t1 = t2
    /\ \A t \in Threads : Alive(t) <=> m_mutex = t
    /\ \A s \in 1..Len(streams) : Contiguous(s)

\* Two messages went to the default stream, a prefix and a piece each, the
\* second one written by thread 2 while it held the mutex
C8_Witness ==
    /\ Len(streams[DefaultStream]) = 4
    /\ streams[DefaultStream][1].msg = 1
    /\ streams[DefaultStream][2].msg = 1
    /\ streams[DefaultStream][3].msg = 2
    /\ streams[DefaultStream][4].msg = 2
    /\ streams[DefaultStream][4].kind = "piece"
    /\ msg[2].id = 2
    /\ m_mutex = 2

\* C9 as stated: the shared stream is replaced only by a step taken with
\* the mutex free, that is, while no thread's message object is alive.
C9_StreamReplacedUnderLock ==
    [][m_out_stream' # m_out_stream =>
          (m_mutex = 0 /\ \A t \in Threads : ~Alive(t))]_vars

\* C10 as stated: while the message of a thread has a magnitude below the
\* logging level, constructing it and inserting into it write nothing: no
\* stream, shared or alternate, gets an entry.
C10_FilteredMessageSilent ==
    [][\A t \in Threads :
          (Alive(t) /\ msg[t].m_curr_mag < m_mag) =>
              /\ \A s \in 1..Len(streams) : streams'[s] = streams[s]
              /\ Alive(t)' => msg'[t].alt_out = msg[t].alt_out]_vars

====
